---- MODULE Spec2Model ----
(***************************************************************************)
(* A model of the vtable crate: the process-wide Registry of leaked       *)
(* vtables (src/src/vtable.rs), the Every downcast layer                    *)
(* (src/src/every.rs), the four specialised operations (src/src/lib.rs)    *)
(* and the CHED dynamic value (src/src/ched.rs).                            *)
(***************************************************************************)
EXTENDS Integers, Sequences, FiniteSets, TLC

VARIABLES
    types,        \* RegistryInternals.types: key -> &'static V (vtable.rs:19)
    internals,    \* the RwLock around RegistryInternals (vtable.rs:14)
    leaked,       \* the vtables made 'static by Box::leak (vtable.rs:42)
    stack,        \* per thread: the get_or_create frames it is inside
    status,       \* per thread: "ready" or "panicked"
    ncalls,       \* Token::default() calls made so far
    specialised,  \* per key: how often V::specialise() was invoked (vtable.rs:41)
    tokens,       \* the Tokens handed back by Token::default() (vtable.rs:54)
    factory,      \* what the caller-supplied Specialise impl does (vtable.rs:8-10)
    heap,         \* the live Box<dyn Every> allocations: address -> erased value
    objs,         \* the live CHED values: id -> [inner, vtable] (ched.rs:11-14);
                  \* a value is named by the address of the box it was built with
    boxes,        \* Box<dyn Every> owned by the caller after into_inner
    map,          \* the keys of a HashMap<CHED, ()> (ched.rs:148)
    last          \* the last operation applied and what it returned; for a
                  \* dispatched operation also who held the registry lock then

vars == <<types, internals, leaked, stack, status, ncalls, specialised, tokens,
          factory, heap, objs, boxes, map, last>>

regVars == <<types, internals, leaked, stack, status, ncalls, specialised, tokens, factory>>
valVars == <<heap, objs, boxes, map, last>>

----------------------------------------------------------------------------
(* Bounds *)

NumThreads == 2
MaxCalls == 3
MaxHeap == 2

Threads == 1..NumThreads

----------------------------------------------------------------------------
(* Types, type identities and names (every.rs:13-21) *)

I32 == "I32"
U32 == "U32"
Str == "Str"
Types == {I32, U32, Str}

\* any::type_name::<T>() (every.rs:18-20, 156)
type_name(T) == CASE T = I32 -> "i32" [] T = U32 -> "u32" [] T = Str -> "&str"

\* TypeId::of::<T>(): one identity per type (every.rs:59, 155)
TypeIdOf(T) == CASE T = I32 -> 1 [] T = U32 -> 2 [] T = Str -> 3

\* the table kinds V: ched::VTable and a caller-defined kind
ChedVTable == "ched::VTable"
CustomVTable == "Custom"
Kinds == {ChedVTable, CustomVTable}

\* (TypeId::of::<T>(), TypeId::of::<V>())
Key(T, V) == [type |-> T, kind |-> V]
Keys == {Key(T, V) : T \in Types, V \in Kinds}

----------------------------------------------------------------------------
(* The vtable of ched.rs and its specialisation *)

\* impl Specialise<T> for VTable (ched.rs:49-58): the four entries are the
\* generic functions of lib.rs instantiated at T; an entry is written as the
\* type it was instantiated at. The caller-defined kind is the unit struct of
\* the registry's test (vtable.rs:96-102): its table is `Self`, whatever T is.
specialise(T, V) ==
    IF V = ChedVTable
    THEN [kind |-> V, clone |-> T, debug |-> T, partial_eq |-> T, hash |-> T]
    ELSE [kind |-> V]

\* size_of::<V>(): four function pointers (ched.rs:42-47); nothing for the
\* unit struct
SizeOf(V) == IF V = ChedVTable THEN 32 ELSE 0

\* What running V::specialise() does besides building the table: the factory of
\* ched::VTable only builds it; a caller's factory is caller code.
Plain == "plain"
Nested == "nested"
Panics == "panics"
FactoryBehaviours == {Plain, Nested, Panics}

Factory(V) == IF V = ChedVTable THEN Plain ELSE factory

\* the key a Nested factory for (T, Custom) resolves while it runs:
\* Token::<T, ched::VTable>::default()
NestedKey(k) == Key(k.type, ChedVTable)

----------------------------------------------------------------------------
(* Concrete values. A payload is the value's bytes: an i32 or u32 its four
   native-endian bytes, a &str its UTF-8 bytes. *)

\* i32::to_ne_bytes / u32::to_ne_bytes on a little-endian target
to_ne_bytes(n) ==
    <<n % 256, (n \div 256) % 256, (n \div 65536) % 256, (n \div 16777216) % 256>>

from_ne_bytes(b) == b[1] + 256 * b[2] + 65536 * b[3] + 16777216 * b[4]

\* the values of the tests (ched.rs:101-203): 42, 13 and "foo"
Foo == <<102, 111, 111>>
Values(T) ==
    CASE T = I32 -> {to_ne_bytes(42), to_ne_bytes(13)}
      [] T = U32 -> {to_ne_bytes(42)}
      [] T = Str -> {Foo}

\* an erased value, dyn Every: the payload with its runtime type
Erased(T, v) == [type |-> T, val |-> v]

\* <T as PartialEq>::eq
NativeEq(T, a, b) == a = b

\* <T as Hash>::hash: an integer writes its bytes, a str its bytes and 0xff
NativeHash(T, v, state) ==
    IF T = Str THEN state \o v \o <<255>> ELSE state \o v

\* <T as Clone>::clone
NativeClone(T, v) == v

RECURSIVE Digits(_)
Digits(n) == IF n < 10 THEN <<48 + n>> ELSE Digits(n \div 10) \o <<48 + (n % 10)>>

\* <T as Debug>::fmt: an integer in decimal, a str between double quotes
NativeDebug(T, v) ==
    IF T = Str THEN <<34>> \o v \o <<34>> ELSE Digits(from_ne_bytes(v))

----------------------------------------------------------------------------
(* The Every downcast layer (every.rs) *)

Ok(v) == [ok |-> TRUE, value |-> v]
Err(e) == [ok |-> FALSE, error |-> e]

\* dyn Every::is (every.rs:58-60)
is(x, T) == TypeIdOf(T) = TypeIdOf(x.type)

\* cannot_downcast (every.rs:151-158)
cannot_downcast_swapped(T, source) ==
    [source_type_id |-> TypeIdOf(T), source_type_name |-> type_name(T),
     target_type_id |-> TypeIdOf(source.type),
     target_type_name |-> type_name(source.type)]
cannot_downcast(T, source) ==
    [source_type_id |-> TypeIdOf(source.type),
     source_type_name |-> type_name(source.type),
     target_type_id |-> TypeIdOf(T),
     target_type_name |-> type_name(T)]

\* impl Display for DowncastError (every.rs:214-222)
Display(e) == "cannot downcast " \o e.source_type_name \o " into " \o e.target_type_name

\* dyn Every::downcast_ref over __downcast_ref (every.rs:63-66, 79-88)
downcast_ref(x, T) ==
    IF is(x, T) THEN Ok(x.val) ELSE Err(cannot_downcast(T, x))

\* dyn Every::downcast_mut over __downcast_mut (every.rs:69-76, 91-100)
downcast_mut(x, T) ==
    IF is(x, T) THEN Ok(x.val) ELSE Err(cannot_downcast(T, x))

\* __downcast (every.rs:189-195): the box itself comes back on a mismatch
raw_downcast(s, T) == IF is(s, T) THEN Ok(s) ELSE Err(s)

\* BoxDowncast::downcast for Box<dyn Every> (every.rs:167-171)
downcast(s, T) ==
    LET r == raw_downcast(s, T)
    IN  IF r.ok THEN Ok(r.value.val) ELSE Err(cannot_downcast(T, r.error))

\* the three facades (every.rs:117-149, 174-186)
DynEvery == "dyn Every"
DynEverySend == "dyn Every + Send"
DynEverySendSync == "dyn Every + Send + Sync"
Facades == {DynEvery, DynEverySend, DynEverySendSync}

facade_downcast_ref(f, x, T) == downcast_ref(x, T)
facade_downcast_mut(f, x, T) == downcast_mut(x, T)
facade_downcast(f, s, T) == downcast(s, T)

\* every::panic (every.rs:226-228): unwinds with the error's message
Returned(v) == [panicked |-> FALSE, value |-> v]
Panicked(e) == [panicked |-> TRUE, message |-> Display(e)]

----------------------------------------------------------------------------
(* The specialised operations (lib.rs) *)

\* partial_eq::<T> (lib.rs:11-15)
partial_eq_map_or_true(T, this, other) ==
    LET lhs == downcast_ref(this, T)
        rhs == downcast_ref(other, T)
    IN  IF ~lhs.ok THEN Panicked(lhs.error)
        ELSE Returned(~rhs.ok \/ NativeEq(T, lhs.value, rhs.value))
partial_eq(T, this, other) ==
    LET lhs == downcast_ref(this, T)
        rhs == downcast_ref(other, T)
    IN  IF ~lhs.ok THEN Panicked(lhs.error)
        ELSE Returned(rhs.ok /\ NativeEq(T, lhs.value, rhs.value))

\* debug::<T> (lib.rs:19-25)
debug(T, this) ==
    LET value == downcast_ref(this, T)
    IN  IF ~value.ok THEN Panicked(value.error)
        ELSE Returned(NativeDebug(T, value.value))

\* clone::<T> (lib.rs:29-33): the clone is boxed as a T
clone(T, this) ==
    LET value == downcast_ref(this, T)
    IN  IF ~value.ok THEN Panicked(value.error)
        ELSE Returned(Erased(T, NativeClone(T, value.value)))

\* hash::<T> (lib.rs:37-40): what the hasher has been fed afterwards
hash(T, this, state) ==
    LET v == downcast_ref(this, T)
    IN  IF ~v.ok THEN Panicked(v.error)
        ELSE Returned(NativeHash(T, v.value, state))

----------------------------------------------------------------------------
(* Registry (vtable.rs:12-48) *)

NoThread == 0
NoRef == 0

\* RwLock::write (vtable.rs:31) is granted only while nobody holds the lock
CanWriteWhileHeld(t) == TRUE
CanWrite(t) == internals.writer = NoThread

\* a panic unwinding through get_or_create drops the write guard the thread
\* holds, which poisons the lock
Unwind(t) ==
    IF internals.writer = t THEN [writer |-> NoThread, poisoned |-> TRUE]
    ELSE internals

\* Entry::Occupied / Entry::Vacant (vtable.rs:33-35, 40)
InsertAlways(k) == FALSE
Occupied(k) == k \in DOMAIN types

\* Box::new of a zero-sized value allocates nothing: the box is the dangling
\* address align_of::<V>(), the same for every such box
Dangling == 1

\* Box::leak(Box::new(V::specialise())) (vtable.rs:41-42): for a kind with a
\* size a fresh, aligned 'static address that is never freed; for a zero-sized
\* kind the dangling address
LeakRef(k) ==
    IF SizeOf(k.kind) = 0 THEN Dangling
    ELSE 8 * (Cardinality(DOMAIN leaked \ {Dangling}) + 1)
Leak(k) == LeakRef(k) :> specialise(k.type, k.kind) @@ leaked

\* entry.insert(Record(Box::new(vtable))) (vtable.rs:43)
InsertRecord(k) == k :> LeakRef(k) @@ types

\* a call of get_or_create: where it is, the reference it will return, and how
\* often it has acquired the lock
Frame(k) == [key |-> k, pc |-> "write", vtable |-> NoRef, acquired |-> 0]
Top(t) == stack[t][Len(stack[t])]
SetTop(t, f) == [stack EXCEPT ![t] = [@ EXCEPT ![Len(@)] = f]]
InCall(t) == stack[t] # <<>>
At(t, pc) == InCall(t) /\ status[t] = "ready" /\ Top(t).pc = pc

\* Token::create_unchecked (vtable.rs:63-65)
Token(t, k, v) == [by |-> t, type |-> k.type, kind |-> k.kind, vtable_ref |-> v]

\* Token::default() (vtable.rs:69-70): enter get_or_create::<T, V>
TokenDefault(t, k) ==
    /\ status[t] = "ready" /\ ~InCall(t) /\ ncalls < MaxCalls
    /\ stack' = [stack EXCEPT ![t] = <<Frame(k)>>]
    /\ ncalls' = ncalls + 1
    /\ last' = [op |-> "default"]
    /\ UNCHANGED <<types, internals, leaked, status, specialised, tokens, factory>>
    /\ UNCHANGED <<heap, objs, boxes, map>>

\* self.internals.write().unwrap() (vtable.rs:31)
Write(t) ==
    /\ At(t, "write") /\ CanWrite(t)
    /\ IF internals.poisoned
       THEN \* Err(PoisonError): unwrap panics and the guard inside it is dropped
            /\ status' = [status EXCEPT ![t] = "panicked"]
            /\ stack' = [stack EXCEPT ![t] = <<>>]
            /\ UNCHANGED internals
       ELSE /\ internals' = [internals EXCEPT !.writer = t]
            /\ stack' = SetTop(t, [Top(t) EXCEPT !.pc = "entry", !.acquired = @ + 1])
            /\ UNCHANGED status
    /\ UNCHANGED <<types, leaked, ncalls, specialised, tokens, factory>>
    /\ UNCHANGED valVars

\* RwLock::write on a lock the calling thread already holds: std documents that
\* it "might panic"; otherwise the thread blocks forever (no step)
WriteReentrant(t) ==
    /\ At(t, "write") /\ internals.writer = t
    /\ status' = [status EXCEPT ![t] = "panicked"]
    /\ stack' = [stack EXCEPT ![t] = <<>>]
    /\ internals' = Unwind(t)
    /\ UNCHANGED <<types, leaked, ncalls, specialised, tokens, factory>>
    /\ UNCHANGED valVars

\* internals.types.entry(key) and the match on it (vtable.rs:32-39)
Entry(t) ==
    /\ At(t, "entry")
    /\ stack' = SetTop(t, IF Occupied(Top(t).key)
                          THEN [Top(t) EXCEPT !.pc = "return",
                                              !.vtable = types[Top(t).key]]
                          ELSE [Top(t) EXCEPT !.pc = "specialise"])
    /\ UNCHANGED <<types, internals, leaked, status, ncalls, specialised, tokens, factory>>
    /\ UNCHANGED valVars

\* V::specialise() is invoked (vtable.rs:41)
Specialise(t) ==
    /\ At(t, "specialise")
    /\ specialised' = [specialised EXCEPT ![Top(t).key] = @ + 1]
    /\ CASE Factory(Top(t).key.kind) = Plain ->
              /\ stack' = SetTop(t, [Top(t) EXCEPT !.pc = "insert"])
              /\ UNCHANGED <<internals, status>>
         [] Factory(Top(t).key.kind) = Nested ->
              /\ stack' = [stack EXCEPT ![t] =
                     Append([@ EXCEPT ![Len(@)].pc = "factory"], Frame(NestedKey(Top(t).key)))]
              /\ UNCHANGED <<internals, status>>
         [] Factory(Top(t).key.kind) = Panics ->
              /\ status' = [status EXCEPT ![t] = "panicked"]
              /\ stack' = [stack EXCEPT ![t] = <<>>]
              /\ internals' = Unwind(t)
    /\ UNCHANGED <<types, leaked, ncalls, tokens, factory>>
    /\ UNCHANGED valVars

\* Box::new, Box::leak and entry.insert(Record(..)) (vtable.rs:41-44)
Insert(t) ==
    /\ At(t, "insert")
    /\ leaked' = Leak(Top(t).key)
    /\ types' = InsertRecord(Top(t).key)
    /\ stack' = SetTop(t, [Top(t) EXCEPT !.pc = "return",
                                          !.vtable = LeakRef(Top(t).key)])
    /\ UNCHANGED <<internals, status, ncalls, specialised, tokens, factory>>
    /\ UNCHANGED valVars

\* the write guard `internals` goes out of scope at the end of get_or_create
\* (vtable.rs:47), which unlocks the RwLock
KeepGuard(t) == internals
DropGuard(t) == [internals EXCEPT !.writer = NoThread]

\* the guard is dropped and the reference returned (vtable.rs:38, 44, 47); the
\* caller is Token::default (vtable.rs:71) or a factory that resolved a token
Return(t) ==
    /\ At(t, "return")
    /\ internals' = DropGuard(t)
    /\ IF Len(stack[t]) = 1
       THEN /\ stack' = [stack EXCEPT ![t] = <<>>]
            /\ tokens' = tokens \cup {Token(t, Top(t).key, Top(t).vtable)}
       ELSE /\ stack' = [stack EXCEPT ![t] =
                   [SubSeq(@, 1, Len(@) - 1) EXCEPT ![Len(@) - 1].pc = "insert"]]
            /\ UNCHANGED tokens
    /\ UNCHANGED <<types, leaked, status, ncalls, specialised, factory>>
    /\ UNCHANGED valVars

----------------------------------------------------------------------------
(* CHED, the dynamic value (ched.rs) *)

Main == 1

FreeAddrs == (1..MaxHeap) \ DOMAIN heap
Min(S) == CHOOSE x \in S : \A y \in S : x <= y

\* Box::new: the allocator hands out an unused address
BoxNew == Min(FreeAddrs)

Inner(d) == heap[objs[d].inner]
VTableOf(d) == leaked[objs[d].vtable]

\* impl Clone for CHED (ched.rs:68-73)
CHED_clone(d) == clone(VTableOf(d).clone, Inner(d))

\* impl PartialEq for CHED (ched.rs:78-80)
CHED_eq(a, b) == partial_eq(VTableOf(a).partial_eq, Inner(a), Inner(b))

\* impl Hash for CHED (ched.rs:87-89)
CHED_hash(d, state) == hash(VTableOf(d).hash, Inner(d), state)

\* impl Debug for CHED (ched.rs:61-63)
CHED_fmt(d) == debug(VTableOf(d).debug, Inner(d))

\* the main thread is between calls
Idle == status[Main] = "ready" /\ ~InCall(Main)

\* an object the caller still owns (a map owns its keys)
Owned(d) == d \in DOMAIN objs /\ d \notin map

Without(f, x) == [y \in DOMAIN f \ {x} |-> f[y]]

\* CHED::new(value, &tok) (ched.rs:18-23)
CHED_new(T, v, tok) ==
    [inner |-> BoxNew, vtable |-> tok.vtable_ref]

\* CHED::new(v, &tok) (ched.rs:18-23) with a token of ched::VTable resolved
\* earlier by Token::default(): the value is boxed and paired with the token's
\* table; the registry is not consulted
New(tok, v) ==
    /\ Idle /\ tok \in tokens /\ tok.kind = ChedVTable
    /\ FreeAddrs # {}
    /\ heap' = BoxNew :> Erased(tok.type, v) @@ heap
    /\ objs' = BoxNew :> CHED_new(tok.type, v, tok) @@ objs
    /\ last' = [op |-> "new", d |-> BoxNew, type |-> tok.type, val |-> v]
    /\ UNCHANGED <<boxes, map>>
    /\ UNCHANGED regVars

\* d.clone() (ched.rs:68-73)
\* inner: the box the table's clone entry returns; vtable: self.vtable
SharedInner(d, r) == objs[d].inner
CloneInner(d, r) == BoxNew
CloneLatestTable(d) == 8 * Cardinality(DOMAIN leaked \ {Dangling})
CloneVTable(d) == objs[d].vtable
Clone(d) ==
    /\ Idle /\ d \in DOMAIN objs
    /\ LET r == CHED_clone(d)
       IN  IF r.panicked
           THEN /\ last' = [op |-> "clone", d |-> d, res |-> r, lock |-> internals.writer]
                /\ UNCHANGED <<heap, objs>>
           ELSE /\ FreeAddrs # {}
                /\ heap' = CloneInner(d, r) :> r.value @@ heap
                /\ objs' = BoxNew :> [inner |-> CloneInner(d, r),
                                      vtable |-> CloneVTable(d)] @@ objs
                /\ last' = [op |-> "clone", d |-> d, res |-> r, c |-> BoxNew,
                            lock |-> internals.writer]
    /\ UNCHANGED <<boxes, map>>
    /\ UNCHANGED regVars

\* a == b (ched.rs:78-80)
Eq(a, b) ==
    /\ Idle /\ a \in DOMAIN objs /\ b \in DOMAIN objs
    /\ last' = [op |-> "eq", a |-> a, b |-> b, res |-> CHED_eq(a, b),
                lock |-> internals.writer]
    /\ UNCHANGED <<heap, objs, boxes, map>>
    /\ UNCHANGED regVars

\* d.hash(&mut state) on a fresh hasher (ched.rs:87-89)
Hash(d) ==
    /\ Idle /\ d \in DOMAIN objs
    /\ last' = [op |-> "hash", d |-> d, res |-> CHED_hash(d, <<>>),
                lock |-> internals.writer]
    /\ UNCHANGED <<heap, objs, boxes, map>>
    /\ UNCHANGED regVars

\* format!("{d:?}") (ched.rs:61-63)
Debug(d) ==
    /\ Idle /\ d \in DOMAIN objs
    /\ last' = [op |-> "debug", d |-> d, res |-> CHED_fmt(d),
                lock |-> internals.writer]
    /\ UNCHANGED <<heap, objs, boxes, map>>
    /\ UNCHANGED regVars

\* d.inner().downcast_ref::<T>() (ched.rs:27-29, 167)
InnerDowncastRef(d, T) ==
    /\ Idle /\ Owned(d)
    /\ last' = [op |-> "inner_downcast_ref", d |-> d, source |-> Inner(d), target |-> T,
                res |-> downcast_ref(Inner(d), T)]
    /\ UNCHANGED <<heap, objs, boxes, map>>
    /\ UNCHANGED regVars

\* *d.inner_mut().downcast_mut::<T>()? = v (ched.rs:32-34, 175)
InnerDowncastMut(d, T, v) ==
    /\ Idle /\ Owned(d)
    /\ LET r == downcast_mut(Inner(d), T)
       IN  /\ heap' = IF r.ok THEN [heap EXCEPT ![objs[d].inner].val = v] ELSE heap
           /\ last' = [op |-> "inner_downcast_mut", d |-> d, source |-> Inner(d),
                       target |-> T, res |-> r, written |-> v]
    /\ UNCHANGED <<objs, boxes, map>>
    /\ UNCHANGED regVars

\* Box::new(v) as Box<dyn Every [+ Send [+ Sync]]> (every.rs:239, 336, 342)
BoxValue(T, v, f) ==
    /\ Idle /\ FreeAddrs # {}
    /\ heap' = BoxNew :> Erased(T, v) @@ heap
    /\ boxes' = BoxNew :> f @@ boxes
    /\ last' = [op |-> "box", box |-> BoxNew]
    /\ UNCHANGED <<objs, map>>
    /\ UNCHANGED regVars

\* b.downcast_ref::<T>() (every.rs:63-66, 124-126, 141-143)
DowncastRef(b, T) ==
    /\ Idle /\ b \in DOMAIN boxes
    /\ last' = [op |-> "downcast_ref", box |-> b, source |-> heap[b], target |-> T,
                facade |-> boxes[b],
                res |-> facade_downcast_ref(boxes[b], heap[b], T)]
    /\ UNCHANGED <<heap, objs, boxes, map>>
    /\ UNCHANGED regVars

\* *b.downcast_mut::<T>()? = v (every.rs:69-76, 129-131, 146-148, 267)
DowncastMut(b, T, v) ==
    /\ Idle /\ b \in DOMAIN boxes
    /\ LET r == facade_downcast_mut(boxes[b], heap[b], T)
       IN  /\ heap' = IF r.ok THEN [heap EXCEPT ![b].val = v] ELSE heap
           /\ last' = [op |-> "downcast_mut", box |-> b, source |-> heap[b],
                       target |-> T, facade |-> boxes[b], res |-> r, written |-> v]
    /\ UNCHANGED <<objs, boxes, map>>
    /\ UNCHANGED regVars

\* *d.inner_mut() = Box::new(v): inner_mut hands out &mut Box<dyn Every>
\* (ched.rs:32-34), which the caller may assign through; the old box is dropped
ReplaceInner(d, T, v) ==
    /\ Idle /\ Owned(d)
    /\ heap' = [heap EXCEPT ![objs[d].inner] = Erased(T, v)]
    /\ last' = [op |-> "replace", d |-> d, type |-> T, val |-> v]
    /\ UNCHANGED <<objs, boxes, map>>
    /\ UNCHANGED regVars

\* let b = d.into_inner() (ched.rs:37-39): the CHED is consumed and its box,
\* a Box<dyn Every>, is the caller's
IntoInner(d) ==
    /\ Idle /\ Owned(d)
    /\ boxes' = objs[d].inner :> DynEvery @@ boxes
    /\ objs' = Without(objs, d)
    /\ last' = [op |-> "into_inner", d |-> d, box |-> objs[d].inner,
                source |-> Inner(d)]
    /\ UNCHANGED <<heap, map>>
    /\ UNCHANGED regVars

\* b.downcast::<T>() (every.rs:165-186): consumes the box; on a mismatch the box
\* given back by __downcast is dropped once the error has been built from it
DowncastKeepsBox(b, r) == IF r.ok THEN Without(heap, b) ELSE heap
DowncastHeap(b, r) == Without(heap, b)
Downcast(b, T) ==
    /\ Idle /\ b \in DOMAIN boxes
    /\ LET r == facade_downcast(boxes[b], heap[b], T)
       IN  /\ heap' = DowncastHeap(b, r)
           /\ boxes' = IF b \in DOMAIN heap' THEN boxes ELSE Without(boxes, b)
           /\ last' = [op |-> "downcast", box |-> b, source |-> heap[b], target |-> T,
                       facade |-> boxes[b], res |-> r]
    /\ UNCHANGED <<objs, map>>
    /\ UNCHANGED regVars

\* map.insert(d, ()) on a HashMap<CHED, ()> (ched.rs:148-159): the key is
\* hashed, then compared with the keys of the same hash; an equal key stays and
\* the new one is dropped
SameHashOnly(d, k) == CHED_hash(k, <<>>) = CHED_hash(d, <<>>)
KeyMatches(d, k) ==
    /\ CHED_hash(k, <<>>) = CHED_hash(d, <<>>)
    /\ CHED_eq(d, k) = Returned(TRUE)
MapInsert(d) ==
    /\ Idle /\ Owned(d)
    /\ LET h == CHED_hash(d, <<>>)
           found == {k \in map : KeyMatches(d, k)}
       IN  IF h.panicked \/ found # {}
           THEN /\ heap' = Without(heap, objs[d].inner)
                /\ objs' = Without(objs, d)
                /\ map' = map
                /\ last' = [op |-> "insert", d |-> d, panicked |-> h.panicked,
                            previous |-> found]
           ELSE /\ map' = map \cup {d}
                /\ last' = [op |-> "insert", d |-> d, panicked |-> FALSE,
                            previous |-> {}]
                /\ UNCHANGED <<heap, objs>>
    /\ UNCHANGED boxes
    /\ UNCHANGED regVars

\* the steps the thread itself takes once inside Token::default()
Step(t) == Write(t) \/ Entry(t) \/ Specialise(t) \/ Insert(t) \/ Return(t)

----------------------------------------------------------------------------
(* Initial states *)

InitRegistry ==
    /\ types = <<>>
    /\ internals = [writer |-> NoThread, poisoned |-> FALSE]
    /\ leaked = <<>>
    /\ stack = [t \in Threads |-> <<>>]
    /\ status = [t \in Threads |-> "ready"]
    /\ ncalls = 0
    /\ specialised = [k \in Keys |-> 0]
    /\ tokens = {}

InitValues ==
    /\ heap = <<>>
    /\ objs = <<>>
    /\ boxes = <<>>
    /\ map = {}
    /\ last = [op |-> "none"]

Init == InitRegistry /\ InitValues /\ factory \in FactoryBehaviours

Next ==
    \E t \in Threads :
        \/ \E k \in Keys : TokenDefault(t, k)
        \/ Write(t)
        \/ WriteReentrant(t)
        \/ Entry(t)
        \/ Specialise(t)
        \/ Insert(t)
        \/ Return(t)

Spec == Init /\ [][Next]_vars

\* threads are scheduled fairly; nothing obliges RwLock::write to panic
SpecFair == Spec /\ \A t \in Threads : WF_vars(Step(t))

\* the types the dynamic values of the tests hold
StoredTypes == {I32, Str}

\* one thread that builds dynamic values and works on them
InitValuesSpec == InitRegistry /\ InitValues /\ factory = Plain

\* every public operation of CHED (ched.rs:16-90) on values built from
\* resolved tokens, and the downcast of the box into_inner gives the caller
\* (ched.rs:162-203)
NextValues ==
    \/ \E T \in StoredTypes : TokenDefault(Main, Key(T, ChedVTable))
    \/ Step(Main)
    \/ \E tok \in tokens : \E v \in Values(tok.type) : New(tok, v)
    \/ \E d \in DOMAIN objs : Clone(d)
    \/ \E a \in DOMAIN objs : \E b \in DOMAIN objs : Eq(a, b)
    \/ \E d \in DOMAIN objs : Hash(d)
    \/ \E d \in DOMAIN objs : Debug(d)
    \/ \E d \in DOMAIN objs : \E T \in Types : InnerDowncastRef(d, T)
    \/ \E d \in DOMAIN objs : \E T \in Types : \E v \in Values(T) : InnerDowncastMut(d, T, v)
    \/ \E d \in DOMAIN objs : \E T \in StoredTypes : \E v \in Values(T) : ReplaceInner(d, T, v)
    \/ \E d \in DOMAIN objs : IntoInner(d)
    \/ \E b \in DOMAIN boxes : \E T \in Types : Downcast(b, T)

SpecValues == InitValuesSpec /\ [][NextValues]_vars

\* one thread that uses dynamic values as the keys of a HashMap, as
\* tests::test_hash (ched.rs:144-160) does with i32 and &str keys; a u32 of the
\* same bytes as an i32 hashes alike
NextMap ==
    \/ \E T \in Types : TokenDefault(Main, Key(T, ChedVTable))
    \/ Step(Main)
    \/ \E tok \in tokens : \E v \in Values(tok.type) : New(tok, v)
    \/ \E a \in DOMAIN objs : \E b \in DOMAIN objs : Eq(a, b)
    \/ \E d \in DOMAIN objs : Hash(d)
    \/ \E d \in DOMAIN objs : MapInsert(d)

SpecMap == InitValuesSpec /\ [][NextMap]_vars

\* one thread that boxes values behind the three facades and downcasts them
NextEvery ==
    \/ \E T \in Types : \E v \in Values(T) : \E f \in Facades : BoxValue(T, v, f)
    \/ \E b \in DOMAIN boxes : \E T \in Types : DowncastRef(b, T)
    \/ \E b \in DOMAIN boxes : \E T \in Types : \E v \in Values(T) : DowncastMut(b, T, v)
    \/ \E b \in DOMAIN boxes : \E T \in Types : Downcast(b, T)

SpecEvery == InitValuesSpec /\ [][NextEvery]_vars

\* the main thread resolves a token, builds dynamic values and applies the
\* dispatched operations to them while the other threads resolve tokens of a
\* caller-defined kind
Workers == Threads \ {Main}
SharedKeys == {Key(I32, CustomVTable)}

NextShared ==
    \/ \E t \in Workers : \E k \in SharedKeys : TokenDefault(t, k)
    \/ TokenDefault(Main, Key(I32, ChedVTable))
    \/ \E t \in Threads : Write(t)
    \/ \E t \in Threads : WriteReentrant(t)
    \/ \E t \in Threads : Entry(t)
    \/ \E t \in Threads : Specialise(t)
    \/ \E t \in Threads : Insert(t)
    \/ \E t \in Threads : Return(t)
    \/ \E tok \in tokens : \E v \in Values(tok.type) : New(tok, v)
    \/ \E d \in DOMAIN objs : Clone(d)
    \/ \E a \in DOMAIN objs : \E b \in DOMAIN objs : Eq(a, b)
    \/ \E d \in DOMAIN objs : Hash(d)
    \/ \E d \in DOMAIN objs : Debug(d)

SpecShared == Init /\ [][NextShared]_vars

----------------------------------------------------------------------------
(* Properties of the Registry, checked under Spec and SpecFair *)

KeyOf(tok) == Key(tok.type, tok.kind)
Done(t) == ~InCall(t) /\ status[t] = "ready"

\* C1: for every key the specialisation factory is invoked at most once over
\* the run, exactly once as soon as any call for the key has got its reference,
\* and every call for the key, on whatever thread, is handed the one reference
\* the registry holds for it.
C1_OneTablePerKey ==
    /\ \A k \in Keys : specialised[k] <= 1
    /\ \A tok \in tokens :
          /\ specialised[KeyOf(tok)] = 1
          /\ KeyOf(tok) \in DOMAIN types
          /\ tok.vtable_ref = types[KeyOf(tok)]
    /\ \A t \in Threads : \A i \in 1..Len(stack[t]) :
          stack[t][i].vtable # NoRef =>
              /\ specialised[stack[t][i].key] = 1
              /\ stack[t][i].vtable = types[stack[t][i].key]
    /\ \A k1 \in DOMAIN types : \A k2 \in DOMAIN types :
          SizeOf(k1.kind) > 0 /\ types[k1] = types[k2] => k1 = k2
    /\ \A k \in DOMAIN types : leaked[types[k]] = specialise(k.type, k.kind)

\* two threads have both resolved the same key and hold the same reference
C1_Witness ==
    \E a \in tokens : \E b \in tokens :
        /\ a.by # b.by /\ KeyOf(a) = KeyOf(b)
        /\ a.vtable_ref = b.vtable_ref
        /\ specialised[KeyOf(a)] = 1

\* C9: the registry only grows. A key has an entry only once its factory has
\* run; a step never removes or replaces an entry or a leaked table, adds at
\* most the entry of the key being resolved, never runs the factory of a key
\* that has an entry, and every reference handed back is the entry's.
C9_Step ==
    /\ \A k \in DOMAIN types :
          /\ k \in DOMAIN types'
          /\ types'[k] = types[k]
          /\ specialised'[k] = specialised[k]
    /\ \A r \in DOMAIN leaked : r \in DOMAIN leaked' /\ leaked'[r] = leaked[r]
    /\ \A k \in DOMAIN types' \ DOMAIN types :
          /\ DOMAIN types' = DOMAIN types \cup {k}
          /\ \E t \in Threads : At(t, "insert") /\ Top(t).key = k
          /\ leaked'[types'[k]] = specialise(k.type, k.kind)
    /\ \A tok \in tokens' \ tokens :
          KeyOf(tok) \in DOMAIN types /\ tok.vtable_ref = types[KeyOf(tok)]

C9_RegistryOnlyGrows ==
    /\ [](\A k \in DOMAIN types : specialised[k] = 1 /\ types[k] \in DOMAIN leaked)
    /\ [][C9_Step]_vars

\* a call found the entry another call had inserted, with a second key present
C9_Witness ==
    /\ Cardinality(DOMAIN types) >= 2
    /\ \E t \in Threads : \E tok \in tokens :
          /\ tok.by # t
          /\ At(t, "return")
          /\ Top(t).key = KeyOf(tok)
          /\ Top(t).vtable = tok.vtable_ref

\* C10: every resolution completes. Under fair scheduling a thread that has
\* entered Token::default() eventually returns from it with a reference, for
\* every factory that itself returns, also one that resolves a token for
\* another key while it runs.
C10_EveryResolutionCompletes ==
    \A t \in Threads : (factory # Panics /\ InCall(t)) ~> Done(t)

----------------------------------------------------------------------------
(* Properties of the dynamic value, checked under SpecValues and SpecMap *)

\* the table of d was specialised for the runtime type of d's inner value
WellPaired(d) ==
    /\ VTableOf(d).clone = Inner(d).type
    /\ VTableOf(d).debug = Inner(d).type
    /\ VTableOf(d).partial_eq = Inner(d).type
    /\ VTableOf(d).hash = Inner(d).type

\* C2: in every reachable state, the type the table attached to a dynamic
\* value was specialised for is the runtime type of its erased inner value.
C2_TableMatchesInner == \A d \in DOMAIN objs : WellPaired(d)

\* C3: a == b, for a as CHED::new pairs it with its table, is true exactly when
\* a and b wrap the same concrete type and their payloads are natively equal;
\* it is false when the types differ, whichever value is the left operand.
C3_Equality ==
    /\ \A a \in DOMAIN objs : \A b \in DOMAIN objs :
          WellPaired(a) =>
              CHED_eq(a, b) = Returned(/\ Inner(a).type = Inner(b).type
                                       /\ Inner(a).val = Inner(b).val)
    /\ last.op = "eq" /\ WellPaired(last.a) =>
          /\ ~last.res.panicked
          /\ last.res.value <=> /\ Inner(last.a).type = Inner(last.b).type
                                /\ NativeEq(Inner(last.a).type, Inner(last.a).val,
                                            Inner(last.b).val)

\* a == b has just been evaluated to false on two values of different types,
\* built from tokens resolved by separate Token::default() calls
C3_Witness ==
    /\ last.op = "eq"
    /\ WellPaired(last.a) /\ WellPaired(last.b)
    /\ Inner(last.a).type # Inner(last.b).type
    /\ last.res = Returned(FALSE)
    /\ \E c \in DOMAIN objs \ {last.a} : CHED_eq(last.a, c) = Returned(FALSE)

\* C7: a mutation of d's payload through d.inner_mut().downcast_mut() leaves
\* every other dynamic value, in particular a clone of d or the value d was
\* cloned from, with its payload and its table reference unchanged.
C7_Step ==
    last'.op = "inner_downcast_mut" =>
        \A c \in DOMAIN objs \ {last'.d} :
            /\ c \in DOMAIN objs'
            /\ objs'[c].vtable = objs[c].vtable
            /\ heap'[objs'[c].inner] = heap[objs[c].inner]

C7_CloneIndependence == [][C7_Step]_vars

\* d has just been written through downcast_mut while another value attached
\* to the same table, as a clone of d taken before the write is, still holds the
\* payload d held before
C7_Witness ==
    /\ last.op = "inner_downcast_mut" /\ last.res.ok
    /\ last.written # last.source.val
    /\ \E c \in DOMAIN objs \ {last.d} :
          /\ objs[c].vtable = objs[last.d].vtable
          /\ objs[c].inner # objs[last.d].inner
          /\ Inner(c).val = last.source.val
          /\ Inner(last.d).val = last.written

\* C8: the value CHED::new has just built equals itself, and a clone of a
\* value equals the value it was cloned from, both ways round, and is attached
\* to the same table reference.
C8_Reflexive ==
    /\ last.op = "new" =>
          /\ CHED_eq(last.d, last.d) = Returned(TRUE)
          /\ ~CHED_clone(last.d).panicked
          /\ partial_eq(VTableOf(last.d).partial_eq, Inner(last.d),
                        CHED_clone(last.d).value) = Returned(TRUE)
    /\ \A d \in DOMAIN objs : WellPaired(d) => CHED_eq(d, d) = Returned(TRUE)
    /\ last.op = "clone" /\ WellPaired(last.d) =>
          /\ ~last.res.panicked
          /\ objs[last.c].vtable = objs[last.d].vtable
          /\ objs[last.c].inner # objs[last.d].inner
          /\ CHED_eq(last.d, last.c) = Returned(TRUE)
          /\ CHED_eq(last.c, last.d) = Returned(TRUE)

\* a value holding 13 has just been cloned
C8_Witness ==
    /\ last.op = "clone" /\ ~last.res.panicked
    /\ last.res.value = Erased(I32, to_ne_bytes(13))
    /\ last.c # last.d /\ Inner(last.c) = Inner(last.d)

\* C4: two dynamic values that compare equal feed the same bytes to a hasher;
\* map.insert reports a previous entry exactly when the map holds a key of the
\* same concrete type with a natively equal payload, and otherwise adds the key.
SameValue(a, b) == Inner(a).type = Inner(b).type /\ Inner(a).val = Inner(b).val

C4_Step ==
    last'.op = "insert" /\ ~last'.panicked =>
        /\ last'.previous # {} <=> \E k \in map : SameValue(last'.d, k)
        /\ \A k \in last'.previous : k \in map /\ SameValue(last'.d, k)
        /\ map' = IF last'.previous = {} THEN map \cup {last'.d} ELSE map
        /\ \A k \in map : heap'[objs'[k].inner] = heap[objs[k].inner]

C4_HashConsistent ==
    /\ [](\A a \in DOMAIN objs : \A b \in DOMAIN objs :
            WellPaired(a) /\ WellPaired(b) /\ CHED_eq(a, b) = Returned(TRUE) =>
                /\ ~CHED_hash(a, <<>>).panicked
                /\ CHED_hash(a, <<>>) = CHED_hash(b, <<>>))
    /\ [](\A k \in map : WellPaired(k))
    /\ [](\A j \in map : \A k \in map : SameValue(j, k) => j = k)
    /\ [][C4_Step]_vars

\* an insert has just reported the key as present: the map holds a key of the
\* same type and payload, which it kept
C4_Witness ==
    /\ last.op = "insert" /\ ~last.panicked
    /\ last.previous # {}
    /\ last.previous \subseteq map
    /\ last.d \notin DOMAIN objs

----------------------------------------------------------------------------
(* Properties of the downcast layer, checked under SpecEvery *)

IsDowncastOp(op) == op \in {"downcast_ref", "downcast_mut", "downcast"}

\* C5: downcast_ref, downcast_mut and the consuming downcast of a value of
\* runtime type S to T succeed exactly when S = T and then give the stored
\* payload as it was; otherwise they give a DowncastError with the id and name
\* of S as source and of T as target, displayed "cannot downcast S into T";
\* behind each of the three facades alike.
C5_Downcast ==
    IsDowncastOp(last.op) =>
        LET S == last.source.type
            T == last.target
        IN  /\ last.facade \in Facades
            /\ last.res.ok <=> S = T
            /\ last.res.ok => last.res.value = last.source.val
            /\ ~last.res.ok =>
                  /\ last.res.error.source_type_id = TypeIdOf(S)
                  /\ last.res.error.source_type_name = type_name(S)
                  /\ last.res.error.target_type_id = TypeIdOf(T)
                  /\ last.res.error.target_type_name = type_name(T)
                  /\ Display(last.res.error) =
                        "cannot downcast " \o type_name(S) \o " into " \o type_name(T)
            /\ last.op = "downcast_ref" => heap[last.box] = last.source
            /\ last.op = "downcast_mut" =>
                  heap[last.box] = IF last.res.ok THEN Erased(S, last.written)
                                   ELSE last.source

\* a boxed i32 behind the Send + Sync facade has just failed to downcast to u32
C5_Witness ==
    /\ last.op = "downcast" /\ ~last.res.ok
    /\ last.facade = DynEverySendSync
    /\ last.source.type = I32 /\ last.target = U32
    /\ Display(last.res.error) = "cannot downcast i32 into u32"

\* C6 as claimed: after a consuming downcast that failed, the caller still
\* holds the original erased value.
C6_ErasedValueGivenBack ==
    last.op = "downcast" /\ ~last.res.ok =>
        /\ last.box \in DOMAIN boxes
        /\ last.box \in DOMAIN heap
        /\ heap[last.box] = last.source

\* C6 as amended: a consuming downcast that failed hands back only the
\* DowncastError, built from the erased value that __downcast returned; the
\* erased value itself has been dropped, every other box is as it was.
C6_Step ==
    last'.op = "downcast" /\ ~last'.res.ok =>
        /\ raw_downcast(heap[last'.box], last'.target) = Err(heap[last'.box])
        /\ last'.res = Err(cannot_downcast(last'.target, heap[last'.box]))
        /\ last'.box \in DOMAIN boxes
        /\ last'.box \notin DOMAIN boxes'
        /\ last'.box \notin DOMAIN heap'
        /\ \A b \in DOMAIN boxes \ {last'.box} :
              b \in DOMAIN boxes' /\ boxes'[b] = boxes[b] /\ heap'[b] = heap[b]

C6_ErasedValueDropped == [][C6_Step]_vars

\* a consuming downcast of a boxed i32 to &str has just failed and the box is
\* gone, while another box is still held
C6_Witness ==
    /\ last.op = "downcast" /\ ~last.res.ok
    /\ last.source.type = I32 /\ last.target = Str
    /\ last.box \notin DOMAIN heap
    /\ boxes # <<>>

----------------------------------------------------------------------------
(* Properties of the registry lock, checked under SpecShared *)

\* where a call of get_or_create is once write() has returned the guard
LockedPcs == {"entry", "specialise", "factory", "insert", "return"}
DispatchedOps == {"clone", "debug", "eq", "hash"}

\* a thread holds the lock exactly while its outermost get_or_create is between
\* write() and its return, and a call acquires the lock at most once
C11_LockScope ==
    /\ \A t \in Threads :
          internals.writer = t <=>
              InCall(t) /\ status[t] = "ready" /\ stack[t][1].pc \in LockedPcs
    /\ \A t \in Threads : \A i \in 1..Len(stack[t]) :
          stack[t][i].acquired = IF stack[t][i].pc \in LockedPcs THEN 1 ELSE 0

\* a return from get_or_create releases the lock; a dispatched operation leaves
\* the lock, the registry and every call in progress as they were
C11_Step ==
    /\ \A t \in Threads :
          At(t, "return") /\ stack'[t] # stack[t] => internals'.writer = NoThread
    /\ last' # last /\ last'.op \in DispatchedOps =>
          /\ UNCHANGED <<types, internals, leaked, stack, status, specialised, tokens>>
          /\ last'.lock = internals.writer

\* whoever holds the lock, and also when it is poisoned, the main thread
\* between its calls can take each dispatched operation on each dynamic value
\* (clone, as long as the heap has room for the copy)
C11_CanDispatch ==
    \A d \in DOMAIN objs :
        Idle =>
            /\ ENABLED Debug(d)
            /\ ENABLED Hash(d)
            /\ \A b \in DOMAIN objs : ENABLED Eq(d, b)
            /\ FreeAddrs # {} => ENABLED Clone(d)

\* C11: the registry lock is held only inside get_or_create, from write() to the
\* return, which releases it; clone, debug, equality and hash on a dynamic value
\* neither acquire nor wait for the lock, so each of them can be taken and
\* completes while another thread is inside get_or_create holding the lock.
C11_LockOnlyInsideGetOrCreate ==
    /\ []C11_LockScope
    /\ []C11_CanDispatch
    /\ [][C11_Step]_vars

\* a value has just been cloned while a worker, which had found the entry
\* vacant and run the factory, held the lock; it holds it still
C11_Witness ==
    /\ last.op = "clone" /\ ~last.res.panicked
    /\ last.lock \in Workers
    /\ internals.writer = last.lock
    /\ At(last.lock, "insert")
    /\ last.c \in DOMAIN objs /\ Inner(last.c) = Inner(last.d)

----------------------------------------------------------------------------
(* Properties of a failing factory, checked under Spec *)

\* C12: a factory that panics inside get_or_create for key k inserts no entry
\* for k and leaves the registry usable: with such a factory a call fails only
\* where the factory itself runs, so that every other call, for whatever key and
\* on whatever thread, gets past write() and returns a table reference.
C12_Step ==
    factory = Panics =>
        \A t \in Threads :
            status[t] = "ready" /\ status'[t] = "panicked" =>
                /\ At(t, "specialise")
                /\ types' = types /\ leaked' = leaked
                /\ Top(t).key \notin DOMAIN types'
                /\ internals'.writer = NoThread

C12_FailedFactoryLeavesRegistryUsable == [][C12_Step]_vars

====
